---- MODULE Spec2Model ----
(***************************************************************************)
(* Media routes of the backend (src/bancked/routes_media.py): the six     *)
(* request handlers upload_media, search_media, get_media_list,            *)
(* get_media_by_id, update_media_metadata and delete_media, run by         *)
(* concurrent requests against the metadata repository (cosmos_db) and     *)
(* the binary store (blob_storage).                                        *)
(*                                                                         *)
(* Strings are sequences of tokens (a token is a run of characters that    *)
(* no operation of the handlers splits), so concatenation is \o and        *)
(* str.replace / str.split work on token sequences.  Python's None is the  *)
(* empty tuple and a present value v is <<v>>.                             *)
(***************************************************************************)
EXTENDS Integers, Sequences, FiniteSets, TLC

\* ---------------------------------------------------------------- bounds
MaxUploads == 1        \* uploads that reach the binary store in one run
MaxClock == 1          \* instants datetime.utcnow() can return: 0..MaxClock
MaxRecords == 3        \* records of a repository that is listed page by page

Users == {"u1", "u2"}
Slots == {"r1", "r2"}  \* requests in progress at the same time
Ids == 1..MaxUploads   \* media ids a request can name
ErrTexts == {"e1", "e2"}   \* texts of the exceptions a backend raises

\* ------------------------------------------------------ optional values
None == <<>>
Some(x) == <<x>>
IsSome(o) == Len(o) > 0
Val(o) == o[1]

\* ------------------------------------------------------ string helpers
RECURSIVE str_replace(_, _, _)
str_replace(s, old, new) ==
    IF old = <<>>
    THEN IF s = <<>> THEN new
         ELSE new \o <<Head(s)>> \o str_replace(Tail(s), old, new)
    ELSE IF Len(s) < Len(old) THEN s
    ELSE IF SubSeq(s, 1, Len(old)) = old
         THEN new \o str_replace(SubSeq(s, Len(old) + 1, Len(s)), old, new)
         ELSE <<Head(s)>> \o str_replace(Tail(s), old, new)

RECURSIVE split_last(_)
split_last(s) ==
    IF \E i \in 1..Len(s) : s[i] = "/"
    THEN split_last(Tail(s))
    ELSE s

lower(tok) ==
    IF tok = "A" THEN "a" ELSE IF tok = "T0" THEN "t0" ELSE tok

str_lower(s) == [i \in 1..Len(s) |-> lower(s[i])]

contains(s, sub) ==
    \E i \in 0..(Len(s) - Len(sub)) : SubSeq(s, i + 1, i + Len(sub)) = sub

thumb_name(filename) == <<"thumb_">> \o filename

\* ------------------------------------------------------------- inputs
NoFile == [filename |-> <<>>, content_type |-> <<>>, size |-> 0]

ImageFile ==
    [filename |-> <<"d", "/", "a">>, content_type |-> <<"image/", "png">>, size |-> 1]
VideoFile ==
    [filename |-> <<"b">>, content_type |-> <<"video/", "mp4">>, size |-> 1]
TextFile ==
    [filename |-> <<"a">>, content_type |-> <<"text/", "plain">>, size |-> 1]
LargeFile ==
    [filename |-> <<"a">>, content_type |-> <<"image/", "png">>, size |-> 2]
Files == {ImageFile, VideoFile, TextFile, LargeFile}

\* A JSON array element: a string (isStr) or a number, with its text.
Str(toks) == [isStr |-> TRUE, v |-> toks]
Num(toks) == [isStr |-> FALSE, v |-> toks]

\* The text of the `tags` form field, by what json.loads makes of it.
TagsTexts ==
    { [shape |-> "undecodable", elems |-> <<>>],
      [shape |-> "object", elems |-> <<>>],
      [shape |-> "list", elems |-> <<Num(<<"7">>)>>],
      [shape |-> "list", elems |-> <<Str(<<"t0">>)>>] }

UploadDescriptions == {None, Some(<<"d0">>)}
PatchDescriptions == {None, Some(<<>>), Some(<<"d1">>)}
PatchTags == {None, Some(<<>>), Some(<<Str(<<"t1">>)>>)}
Queries == {<<"A">>, <<"t0">>}
MediaTypes == {None, Some("image"), Some("video")}
Pages == 1..(MaxRecords + 1)
PageSizes == 1..MaxRecords


\* ------------------------------------------- collaborators (not in src/)
MaxFileSize == 1

notify_logic_app_raises(ok) == IF ok THEN "returned" ELSE "raised"

\* utils.notify_logic_app: the notification call; it contains its own failure.
notify_logic_app(ok) == "returned"

\* utils.validate_file_type: the media kind, or an HTTPException (400).
validate_file_type(file) ==
    IF Head(file.content_type) = "image/" THEN "image"
    ELSE IF Head(file.content_type) = "video/" THEN "video"
    ELSE "HTTPException"

\* utils.validate_file_size: TRUE when the size is within the ceiling.
validate_file_size(file) == file.size <= MaxFileSize

\* blob_storage.upload_file: the key joins the owner, a random id and the name.
blob_key(user_id, nonce, filename) ==
    <<user_id, "/", ToString(nonce), "_">> \o filename

blob_url(key) == <<"https://blob/">> \o key

\* cosmos_db.get_media_by_id(media_id, user_id): owner-scoped lookup.
get_media_by_id(d, media_id, user_id) ==
    LET hit == {r \in d : r.id = media_id /\ r.userId = user_id}
    IN  IF hit = {} THEN None ELSE Some(CHOOSE r \in hit : TRUE)

\* cosmos_db.create_media
create_media(d, record) == d \cup {record}

\* A changeset is a dict: a key that is not in it is None here.
apply_changeset(r, changeset) ==
    [r EXCEPT !.updatedAt = IF IsSome(changeset.updatedAt)
                            THEN Val(changeset.updatedAt) ELSE @,
              !.description = IF IsSome(changeset.description)
                              THEN Val(changeset.description) ELSE @,
              !.tags = IF IsSome(changeset.tags) THEN Val(changeset.tags) ELSE @]

\* cosmos_db.update_media(media_id, user_id, changeset); the caller has
\* checked that the owned record exists.
update_media(d, media_id, user_id, changeset) ==
    {IF r.id = media_id /\ r.userId = user_id
     THEN apply_changeset(r, changeset) ELSE r : r \in d}

\* cosmos_db.delete_media(media_id, user_id)
delete_media(d, media_id, user_id) ==
    {r \in d : ~(r.id = media_id /\ r.userId = user_id)}

\* Ordering of listings: uploadedAt descending, then id descending.
Before(a, b) ==
    \/ a.uploadedAt > b.uploadedAt
    \/ a.uploadedAt = b.uploadedAt /\ a.id > b.id

RECURSIVE ordered(_)
ordered(S) ==
    IF S = {} THEN <<>>
    ELSE LET first == CHOOSE a \in S : \A b \in S \ {a} : Before(a, b)
         IN  <<first>> \o ordered(S \ {first})

page_of(seq, page, page_size) ==
    LET lo == (page - 1) * page_size + 1
        hi == IF page * page_size < Len(seq) THEN page * page_size ELSE Len(seq)
    IN  SubSeq(seq, lo, hi)

\* cosmos_db.get_user_media(user_id, page, page_size, media_type)
get_user_media(d, user_id, page, page_size, media_type) ==
    LET all == {r \in d : /\ r.userId = user_id
                          /\ (IsSome(media_type) => r.mediaType = Val(media_type))}
    IN  [items |-> page_of(ordered(all), page, page_size), total |-> Cardinality(all)]

matches(r, query) ==
    LET q == str_lower(query)
    IN  \/ contains(str_lower(r.originalFileName), q)
        \/ IsSome(r.description) /\ contains(str_lower(Val(r.description)), q)
        \/ IsSome(r.tags) /\ \E i \in 1..Len(Val(r.tags)) :
               contains(str_lower(Val(r.tags)[i].v), q)

search_media_any_owner(d, user_id, query, page, page_size) ==
    LET all == {r \in d : matches(r, query)}
    IN  [items |-> page_of(ordered(all), page, page_size), total |-> Cardinality(all)]

\* cosmos_db.search_media(user_id, query, page, page_size)
cosmos_search_media(d, user_id, query, page, page_size) ==
    LET all == {r \in d : r.userId = user_id /\ matches(r, query)}
    IN  [items |-> page_of(ordered(all), page, page_size), total |-> Cardinality(all)]

\* models.MediaResponse(**record): strings are required in tags; a lax
\* validator turns a number into its text, a strict one raises.
coerce_tags(tags) ==
    IF IsSome(tags)
    THEN Some([i \in 1..Len(Val(tags)) |-> Str(Val(tags)[i].v)])
    ELSE None

tags_are_strings(tags) ==
    IsSome(tags) => \A i \in 1..Len(Val(tags)) : Val(tags)[i].isStr

MediaResponse(record) == [record EXCEPT !.tags = coerce_tags(@)]

\* -------------------------------------------------------------- state
VARIABLES
    db,          \* cosmos_db: the set of media documents
    blobs,       \* blob_storage: the keys that hold a blob
    nextId,      \* the next uuid4 of a media document
    nextNonce,   \* the next random id of a blob key
    nUploads,    \* uploads that reached the binary store
    now,         \* datetime.utcnow()
    slots,       \* the requests in progress, with their local variables
    last,        \* the response the step just taken sent, or NoResp
    notified     \* the notify_logic_app calls the step just taken made

vars == <<db, blobs, nextId, nextNonce, nUploads, now, slots, last, notified>>

NoPatch == [description |-> None, tags |-> None]

Idle ==
    [pc |-> "idle", op |-> "none", caller |-> "", id |-> 0, file |-> NoFile,
     description |-> None, tags |-> None, kind |-> "", key |-> <<>>,
     url |-> <<>>, thumb |-> None, patch |-> NoPatch, entry |-> None]

NoResp ==
    [op |-> "none", caller |-> "", id |-> 0, status |-> 0, detail |-> <<>>,
     items |-> <<>>, total |-> 0, page |-> 0, pageSize |-> 0]

Resp(op, caller, id, status, detail) ==
    [NoResp EXCEPT !.op = op, !.caller = caller, !.id = id, !.status = status,
                   !.detail = detail]

RespItems(op, caller, id, status, items) ==
    [Resp(op, caller, id, status, <<>>) EXCEPT !.items = items]

Init ==
    /\ db = {}
    /\ blobs = {}
    /\ nextId = 1
    /\ nextNonce = 1
    /\ nUploads = 0
    /\ now = 0
    /\ slots = [s \in Slots |-> Idle]
    /\ last = NoResp
    /\ notified = 0

\* A new request takes the first free slot.
FirstIdle(s) ==
    /\ slots[s].pc = "idle"
    /\ s = "r2" => slots["r1"].pc # "idle"

\* The one notification call every handler makes before its try block.
await_notify == 1

\* A request ends: its response is sent and its slot is free again.
Reply(s, r) ==
    /\ slots' = [slots EXCEPT ![s] = Idle]
    /\ last' = r

\* A request goes on to its next step.
Goto(s, slot) ==
    /\ slots' = [slots EXCEPT ![s] = slot]
    /\ last' = NoResp


\* An exception that leaves the handler before its try block.
Unhandled(op, user_id, media_id) ==
    Resp(op, user_id, media_id, 500, <<"Internal Server Error">>)

\* ------------------------------------------------------- upload_media
\* json.loads(tags) and the isinstance check of the handler.
parse_tags(tags) ==
    IF ~IsSome(tags) THEN [exc |-> "none", value |-> None]
    ELSE IF Val(tags).shape = "undecodable"
         THEN [exc |-> "JSONDecodeError", value |-> None]
    ELSE IF Val(tags).shape # "list"
         THEN [exc |-> "ValueError", value |-> None]
    ELSE [exc |-> "none", value |-> Some(Val(tags).elems)]

\* The handler's answer to an exception raised while it parses the tags.
tags_error_response(user_id, exc) ==
    IF exc = "JSONDecodeError"
    THEN Resp("upload", user_id, 0, 400,
              <<"Invalid tags format. Must be a JSON array.">>)
    ELSE Resp("upload", user_id, 0, 500,
              <<"Failed to upload media: ", "Tags must be an array">>)

on_thumb_upload_error_raised == "raised"

\* The except clause around the thumbnail's store call.
on_thumb_upload_error == "logged"

upload_begin_unvalidated(user_id, file, description, tags, nOk) ==
    LET parsed == parse_tags(tags)
        answer(r) == [reply |-> r, slot |-> Idle]
    IN  IF notify_logic_app(nOk) = "raised"
        THEN answer(Unhandled("upload", user_id, 0))
        ELSE IF parsed.exc # "none"
        THEN answer(tags_error_response(user_id, parsed.exc))
        ELSE [reply |-> NoResp,
              slot |-> [Idle EXCEPT !.pc = "store", !.op = "upload",
                                    !.caller = user_id, !.file = file,
                                    !.description = description,
                                    !.tags = parsed.value,
                                    !.kind = validate_file_type(file)]]

\* Notification, validation and tag parsing: the response, or the request
\* as it goes on to the binary store.
upload_begin(user_id, file, description, tags, nOk) ==
    LET parsed == parse_tags(tags)
        answer(r) == [reply |-> r, slot |-> Idle]
    IN  IF notify_logic_app(nOk) = "raised"
        THEN answer(Unhandled("upload", user_id, 0))
        ELSE IF validate_file_type(file) = "HTTPException"
        THEN answer(Resp("upload", user_id, 0, 400, <<"Invalid file type">>))
        ELSE IF ~validate_file_size(file)
        THEN answer(Resp("upload", user_id, 0, 400, <<"File too large">>))
        ELSE IF parsed.exc # "none"
        THEN answer(tags_error_response(user_id, parsed.exc))
        ELSE [reply |-> NoResp,
              slot |-> [Idle EXCEPT !.pc = "store", !.op = "upload",
                                    !.caller = user_id, !.file = file,
                                    !.description = description,
                                    !.tags = parsed.value,
                                    !.kind = validate_file_type(file)]]

UploadBegin(s, user_id, file, description, tags, nOk) ==
    /\ FirstIdle(s)
    /\ nUploads < MaxUploads
    /\ notified' = await_notify
    /\ LET out == upload_begin(user_id, file, description, tags, nOk) IN
         /\ slots' = [slots EXCEPT ![s] = out.slot]
         /\ last' = out.reply
         /\ nUploads' = IF out.slot.pc = "idle" THEN nUploads ELSE nUploads + 1
    /\ UNCHANGED <<db, blobs, nextId, nextNonce, now>>

UploadStore_failure_ignored(s, ok, e) ==
    /\ slots[s].pc = "store"
    /\ notified' = 0
    /\ UNCHANGED <<db, nextId, nUploads, now>>
    /\ LET key == blob_key(slots[s].caller, nextNonce, slots[s].file.filename) IN
         /\ blobs' = IF ok THEN blobs \cup {key} ELSE blobs
         /\ nextNonce' = nextNonce + 1
         /\ Goto(s, [slots[s] EXCEPT
                       !.pc = IF slots[s].kind = "image" THEN "thumb" ELSE "create",
                       !.key = key, !.url = blob_url(key)])

UploadStore_thumb_for_any_kind(s, ok, e) ==
    /\ slots[s].pc = "store"
    /\ notified' = 0
    /\ UNCHANGED <<db, nextId, nUploads, now>>
    /\ LET key == blob_key(slots[s].caller, nextNonce, slots[s].file.filename) IN
       IF ok
       THEN /\ blobs' = blobs \cup {key}
            /\ nextNonce' = nextNonce + 1
            /\ Goto(s, [slots[s] EXCEPT !.pc = "thumb",
                                        !.key = key, !.url = blob_url(key)])
       ELSE /\ Reply(s, Resp("upload", slots[s].caller, 0, 500,
                             <<"Failed to upload media: ", e>>))
            /\ UNCHANGED <<blobs, nextNonce>>

\* blob_storage.upload_file of the primary bytes.
UploadStore(s, ok, e) ==
    /\ slots[s].pc = "store"
    /\ notified' = 0
    /\ UNCHANGED <<db, nextId, nUploads, now>>
    /\ LET key == blob_key(slots[s].caller, nextNonce, slots[s].file.filename) IN
       IF ok
       THEN /\ blobs' = blobs \cup {key}
            /\ nextNonce' = nextNonce + 1
            /\ Goto(s, [slots[s] EXCEPT
                          !.pc = IF slots[s].kind = "image" THEN "thumb" ELSE "create",
                          !.key = key, !.url = blob_url(key)])
       ELSE /\ Reply(s, Resp("upload", slots[s].caller, 0, 500,
                             <<"Failed to upload media: ", e>>))
            /\ UNCHANGED <<blobs, nextNonce>>

\* generate_thumbnail and the thumbnail's own upload_file.
UploadThumb(s, thumb_bytes, ok, e) ==
    /\ slots[s].pc = "thumb"
    /\ notified' = 0
    /\ UNCHANGED <<db, nextId, nUploads, now>>
    /\ LET key == blob_key(slots[s].caller, nextNonce,
                           thumb_name(slots[s].file.filename)) IN
       IF thumb_bytes /\ ok
       THEN /\ blobs' = blobs \cup {key}
            /\ nextNonce' = nextNonce + 1
            /\ Goto(s, [slots[s] EXCEPT !.pc = "create",
                                        !.thumb = Some(blob_url(key))])
       ELSE IF thumb_bytes /\ on_thumb_upload_error # "logged"
       THEN /\ Reply(s, Resp("upload", slots[s].caller, 0, 500,
                             <<"Failed to upload media: ", e>>))
            /\ UNCHANGED <<blobs, nextNonce>>
       ELSE /\ Goto(s, [slots[s] EXCEPT !.pc = "create"])
            /\ UNCHANGED <<blobs, nextNonce>>

\* The media document of an upload.
artifact_record(slot, artifact_id, timestamp_now) ==
    [id |-> artifact_id,
     userId |-> slot.caller,
     fileName |-> slot.key,
     originalFileName |-> slot.file.filename,
     mediaType |-> slot.kind,
     fileSize |-> slot.file.size,
     mimeType |-> slot.file.content_type,
     blobUrl |-> slot.url,
     thumbnailUrl |-> slot.thumb,
     description |-> slot.description,
     tags |-> slot.tags,
     uploadedAt |-> timestamp_now,
     updatedAt |-> timestamp_now]

\* cosmos_db.create_media and the response.
UploadCreate(s, ok, strict, e) ==
    /\ slots[s].pc = "create"
    /\ notified' = 0
    /\ UNCHANGED <<blobs, nextNonce, nUploads, now>>
    /\ LET record == artifact_record(slots[s], nextId, now) IN
       IF ok
       THEN /\ db' = create_media(db, record)
            /\ nextId' = nextId + 1
            /\ IF strict /\ ~tags_are_strings(record.tags)
               THEN Reply(s, Resp("upload", slots[s].caller, record.id, 500,
                                  <<"Failed to upload media: ", "validation error">>))
               ELSE Reply(s, RespItems("upload", slots[s].caller, record.id, 201,
                                       <<MediaResponse(record)>>))
       ELSE /\ Reply(s, Resp("upload", slots[s].caller, 0, 500,
                             <<"Failed to upload media: ", e>>))
            /\ UNCHANGED <<db, nextId>>

\* ------------------------------------------------------------- clock
Tick ==
    /\ now < MaxClock
    /\ now' = now + 1
    /\ last' = NoResp
    /\ notified' = 0
    /\ UNCHANGED <<db, blobs, nextId, nextNonce, nUploads, slots>>

\* ------------------------------------- existence before ownership
ownership_check_missing_forbidden(stored_entry, user_id) ==
    IF ~IsSome(stored_entry) THEN 403
    ELSE IF Val(stored_entry).userId # user_id THEN 403
    ELSE 200

\* The two checks get, update and delete make on the looked-up record.
ownership_check(stored_entry, user_id) ==
    IF ~IsSome(stored_entry) THEN 404
    ELSE IF Val(stored_entry).userId # user_id THEN 403
    ELSE 200

check_detail(op, code) ==
    IF code = 404 THEN <<"Media not found">>
    ELSE <<"You don't have permission to ", op, " this media">>

\* ---------------------------------------------------- get_media_by_id
get_media_response(d, user_id, media_id, nOk, ok, strict) ==
    LET media_record == get_media_by_id(d, media_id, user_id)
        code == ownership_check(media_record, user_id)
    IN  IF notify_logic_app(nOk) = "raised"
        THEN Unhandled("get", user_id, media_id)
        ELSE IF ~ok
        THEN Resp("get", user_id, media_id, 500, <<"Failed to retrieve media">>)
        ELSE IF code # 200
        THEN Resp("get", user_id, media_id, code, check_detail("access", code))
        ELSE IF strict /\ ~tags_are_strings(Val(media_record).tags)
        THEN Resp("get", user_id, media_id, 500, <<"Failed to retrieve media">>)
        ELSE RespItems("get", user_id, media_id, 200,
                       <<MediaResponse(Val(media_record))>>)

GetMedia(user_id, media_id, nOk, ok, strict) ==
    /\ notified' = await_notify
    /\ last' = get_media_response(db, user_id, media_id, nOk, ok, strict)
    /\ UNCHANGED <<db, blobs, nextId, nextNonce, nUploads, now, slots>>

\* ------------------------------------------ get_media_list, search_media
shaped_items(items) == [i \in 1..Len(items) |-> MediaResponse(items[i])]

all_tags_are_strings(items) ==
    \A i \in 1..Len(items) : tags_are_strings(items[i].tags)

MediaListResponse_total_of_page(op, user_id, found, page, pageSize) ==
    [RespItems(op, user_id, 0, 200, shaped_items(found.items))
       EXCEPT !.total = Len(found.items), !.page = page, !.pageSize = pageSize]

MediaListResponse(op, user_id, found, page, pageSize) ==
    [RespItems(op, user_id, 0, 200, shaped_items(found.items))
       EXCEPT !.total = found.total, !.page = page, !.pageSize = pageSize]

get_media_list_response(d, user_id, page, pageSize, mediaType, nOk, ok, strict) ==
    LET found == get_user_media(d, user_id, page, pageSize, mediaType)
    IN  IF notify_logic_app(nOk) = "raised"
        THEN Unhandled("list", user_id, 0)
        ELSE IF ~ok \/ (strict /\ ~all_tags_are_strings(found.items))
        THEN Resp("list", user_id, 0, 500, <<"Failed to retrieve media list">>)
        ELSE MediaListResponse("list", user_id, found, page, pageSize)

GetMediaList(user_id, page, pageSize, mediaType, nOk, ok, strict) ==
    /\ notified' = await_notify
    /\ last' = get_media_list_response(db, user_id, page, pageSize, mediaType,
                                       nOk, ok, strict)
    /\ UNCHANGED <<db, blobs, nextId, nextNonce, nUploads, now, slots>>

search_media_response(d, user_id, query, page, pageSize, nOk, ok, strict) ==
    LET found == cosmos_search_media(d, user_id, query, page, pageSize)
    IN  IF notify_logic_app(nOk) = "raised"
        THEN Unhandled("search", user_id, 0)
        ELSE IF ~ok \/ (strict /\ ~all_tags_are_strings(found.items))
        THEN Resp("search", user_id, 0, 500, <<"Failed to search media">>)
        ELSE MediaListResponse("search", user_id, found, page, pageSize)

SearchMedia(user_id, query, page, pageSize, nOk, ok, strict) ==
    /\ notified' = await_notify
    /\ last' = search_media_response(db, user_id, query, page, pageSize,
                                     nOk, ok, strict)
    /\ UNCHANGED <<db, blobs, nextId, nextNonce, nUploads, now, slots>>

\* ---------------------------------------------- update_media_metadata
changeset_all_fields(update_data, timestamp_now) ==
    [updatedAt |-> Some(timestamp_now),
     description |-> Some(update_data.description),
     tags |-> Some(update_data.tags)]

changeset_with_owner(update_data, timestamp_now) ==
    [updatedAt |-> Some(timestamp_now),
     description |-> IF IsSome(update_data.description)
                     THEN Some(update_data.description) ELSE None,
     tags |-> IF IsSome(update_data.tags) THEN Some(update_data.tags) ELSE None,
     userId |-> Some("u2")]

\* The changeset: updatedAt always, description and tags when not None.
changeset(update_data, timestamp_now) ==
    [updatedAt |-> Some(timestamp_now),
     description |-> IF IsSome(update_data.description)
                     THEN Some(update_data.description) ELSE None,
     tags |-> IF IsSome(update_data.tags) THEN Some(update_data.tags) ELSE None]

\* Notification, lookup and the two checks: the response, or the request
\* as it goes on to the repository update.
update_begin(d, user_id, media_id, update_data, nOk, ok) ==
    LET stored_entry == get_media_by_id(d, media_id, user_id)
        code == ownership_check(stored_entry, user_id)
        answer(r) == [reply |-> r, slot |-> Idle]
    IN  IF notify_logic_app(nOk) = "raised"
        THEN answer(Unhandled("update", user_id, media_id))
        ELSE IF ~ok
        THEN answer(Resp("update", user_id, media_id, 500,
                         <<"Failed to update media">>))
        ELSE IF code # 200
        THEN answer(Resp("update", user_id, media_id, code,
                         check_detail("update", code)))
        ELSE [reply |-> NoResp,
              slot |-> [Idle EXCEPT !.pc = "persist", !.op = "update",
                                    !.caller = user_id, !.id = media_id,
                                    !.patch = update_data]]

UpdateBegin(s, user_id, media_id, update_data, nOk, ok) ==
    /\ FirstIdle(s)
    /\ notified' = await_notify
    /\ LET out == update_begin(db, user_id, media_id, update_data, nOk, ok) IN
         /\ slots' = [slots EXCEPT ![s] = out.slot]
         /\ last' = out.reply
    /\ UNCHANGED <<db, blobs, nextId, nextNonce, nUploads, now>>

UpdatePersist_not_found_unhandled(s, ok, strict) ==
    /\ slots[s].pc = "persist"
    /\ notified' = 0
    /\ UNCHANGED <<blobs, nextId, nextNonce, nUploads, now>>
    /\ LET user_id == slots[s].caller
           media_id == slots[s].id
           after == update_media(db, media_id, user_id,
                                 changeset(slots[s].patch, now))
           patched_entry == get_media_by_id(after, media_id, user_id)
       IN  IF ~ok \/ ~IsSome(patched_entry)
           THEN /\ Reply(s, Resp("update", user_id, media_id, 500,
                                 <<"Failed to update media">>))
                /\ UNCHANGED db
           ELSE /\ db' = after
                /\ IF strict /\ ~tags_are_strings(Val(patched_entry).tags)
                   THEN Reply(s, Resp("update", user_id, media_id, 500,
                                      <<"Failed to update media">>))
                   ELSE Reply(s, RespItems("update", user_id, media_id, 200,
                                           <<MediaResponse(Val(patched_entry))>>))

\* cosmos_db.update_media and the response.
UpdatePersist(s, ok, strict) ==
    /\ slots[s].pc = "persist"
    /\ notified' = 0
    /\ UNCHANGED <<blobs, nextId, nextNonce, nUploads, now>>
    /\ LET user_id == slots[s].caller
           media_id == slots[s].id
           after == update_media(db, media_id, user_id,
                                 changeset(slots[s].patch, now))
           patched_entry == get_media_by_id(after, media_id, user_id)
       IN  IF ~ok
           THEN /\ Reply(s, Resp("update", user_id, media_id, 500,
                                 <<"Failed to update media">>))
                /\ UNCHANGED db
           ELSE IF ~IsSome(patched_entry)
           THEN /\ Reply(s, Resp("update", user_id, media_id, 404,
                                 <<"ValueError: ", "not found">>))
                /\ UNCHANGED db
           ELSE /\ db' = after
                /\ IF strict /\ ~tags_are_strings(Val(patched_entry).tags)
                   THEN Reply(s, Resp("update", user_id, media_id, 500,
                                      <<"Failed to update media">>))
                   ELSE Reply(s, RespItems("update", user_id, media_id, 200,
                                           <<MediaResponse(Val(patched_entry))>>))

\* -------------------------------------------------------- delete_media
\* The primary blob's delete_file call stands in no try block of its own.
on_blob_delete_error == "raised"

\* The key the handler deletes the thumbnail under.
thumb_blob_name(stored_entry) ==
    str_replace(stored_entry.fileName,
                split_last(stored_entry.originalFileName),
                thumb_name(split_last(stored_entry.originalFileName)))

\* The fields of stored_entry the handler reads after its checks.
read_later(stored_entry) ==
    [fileName |-> stored_entry.fileName,
     originalFileName |-> stored_entry.originalFileName,
     thumbnailUrl |-> stored_entry.thumbnailUrl]

delete_from_database_skipped(d, media_id, user_id) == d

\* The handler's call of cosmos_db.delete_media.
delete_from_database(d, media_id, user_id) == delete_media(d, media_id, user_id)

\* Notification, lookup and the two checks: the response, or the request
\* as it goes on to the binary store.
delete_begin(d, user_id, media_id, nOk, ok) ==
    LET stored_entry == get_media_by_id(d, media_id, user_id)
        code == ownership_check(stored_entry, user_id)
        answer(r) == [reply |-> r, slot |-> Idle]
    IN  IF notify_logic_app(nOk) = "raised"
        THEN answer(Unhandled("delete", user_id, media_id))
        ELSE IF ~ok
        THEN answer(Resp("delete", user_id, media_id, 500,
                         <<"Failed to delete media">>))
        ELSE IF code # 200
        THEN answer(Resp("delete", user_id, media_id, code,
                         check_detail("delete", code)))
        ELSE [reply |-> NoResp,
              slot |-> [Idle EXCEPT !.pc = "blob", !.op = "delete",
                                    !.caller = user_id, !.id = media_id,
                                    !.entry = Some(read_later(Val(stored_entry)))]]

DeleteBegin(s, user_id, media_id, nOk, ok) ==
    /\ FirstIdle(s)
    /\ notified' = await_notify
    /\ LET out == delete_begin(db, user_id, media_id, nOk, ok) IN
         /\ slots' = [slots EXCEPT ![s] = out.slot]
         /\ last' = out.reply
    /\ UNCHANGED <<db, blobs, nextId, nextNonce, nUploads, now>>

\* blob_storage.delete_file of the primary blob.
DeleteBlob(s, ok) ==
    /\ slots[s].pc = "blob"
    /\ notified' = 0
    /\ UNCHANGED <<db, nextId, nextNonce, nUploads, now>>
    /\ LET stored_entry == Val(slots[s].entry)
           next == IF IsSome(stored_entry.thumbnailUrl)
                   THEN "thumb_delete" ELSE "record"
       IN  IF ok
           THEN /\ blobs' = blobs \ {stored_entry.fileName}
                /\ Goto(s, [slots[s] EXCEPT !.pc = next])
           ELSE IF on_blob_delete_error = "raised"
           THEN /\ Reply(s, Resp("delete", slots[s].caller, slots[s].id, 500,
                                 <<"Failed to delete media">>))
                /\ UNCHANGED blobs
           ELSE /\ Goto(s, [slots[s] EXCEPT !.pc = next])
                /\ UNCHANGED blobs

\* blob_storage.delete_file of the thumbnail, inside its try block.
DeleteThumb(s, ok) ==
    /\ slots[s].pc = "thumb_delete"
    /\ notified' = 0
    /\ UNCHANGED <<db, nextId, nextNonce, nUploads, now>>
    /\ blobs' = IF ok THEN blobs \ {thumb_blob_name(Val(slots[s].entry))}
                ELSE blobs
    /\ Goto(s, [slots[s] EXCEPT !.pc = "record"])

\* cosmos_db.delete_media and the empty response.
DeleteRecord(s, ok) ==
    /\ slots[s].pc = "record"
    /\ notified' = 0
    /\ UNCHANGED <<blobs, nextId, nextNonce, nUploads, now>>
    /\ IF ok
       THEN /\ db' = delete_from_database(db, slots[s].id, slots[s].caller)
            /\ Reply(s, Resp("delete", slots[s].caller, slots[s].id, 204, <<>>))
       ELSE /\ Reply(s, Resp("delete", slots[s].caller, slots[s].id, 500,
                             <<"Failed to delete media">>))
            /\ UNCHANGED db

\* ------------------------------------------------------ specifications
OptTagsTexts == {None} \cup {Some(t) : t \in TagsTexts}
UpdateData == [description : PatchDescriptions, tags : PatchTags]
DescriptionOnly == [description |-> Some(<<"d1">>), tags |-> None]
TagsOnly == [description |-> None, tags |-> Some(<<Str(<<"t1">>)>>)]

\* The requests of a scope sc: the inputs and the backend outcomes it draws.
NextIn(sc) ==
    \/ \E s \in sc.slots, u \in sc.users, f \in sc.files, d \in sc.descriptions,
          t \in sc.tags, nOk \in BOOLEAN : UploadBegin(s, u, f, d, t, nOk)
    \/ \E s \in sc.slots, ok \in BOOLEAN, e \in sc.errs : UploadStore(s, ok, e)
    \/ \E s \in sc.slots, tb \in BOOLEAN, ok \in BOOLEAN, e \in sc.errs :
          UploadThumb(s, tb, ok, e)
    \/ \E s \in sc.slots, ok \in BOOLEAN, st \in sc.strict, e \in sc.errs :
          UploadCreate(s, ok, st, e)
    \/ \E u \in sc.users, i \in Ids, nOk \in BOOLEAN, ok \in BOOLEAN,
          st \in sc.strict : GetMedia(u, i, nOk, ok, st)
    \/ \E u \in sc.users, p \in sc.pages, ps \in sc.pageSizes,
          mt \in sc.mediaTypes, nOk \in BOOLEAN, ok \in BOOLEAN,
          st \in sc.strict : GetMediaList(u, p, ps, mt, nOk, ok, st)
    \/ \E u \in sc.users, q \in sc.queries, p \in sc.pages, ps \in sc.pageSizes,
          nOk \in BOOLEAN, ok \in BOOLEAN, st \in sc.strict :
          SearchMedia(u, q, p, ps, nOk, ok, st)
    \/ \E s \in sc.slots, u \in sc.users, i \in Ids, ud \in sc.patches,
          nOk \in BOOLEAN, ok \in BOOLEAN : UpdateBegin(s, u, i, ud, nOk, ok)
    \/ \E s \in sc.slots, ok \in BOOLEAN, st \in sc.strict : UpdatePersist(s, ok, st)
    \/ \E s \in sc.slots, u \in sc.users, i \in Ids, nOk \in BOOLEAN,
          ok \in BOOLEAN : DeleteBegin(s, u, i, nOk, ok)
    \/ \E s \in sc.slots, ok \in BOOLEAN : DeleteBlob(s, ok)
    \/ \E s \in sc.slots, ok \in BOOLEAN : DeleteThumb(s, ok)
    \/ \E s \in sc.slots, ok \in BOOLEAN : DeleteRecord(s, ok)

\* Two requests at a time by two callers, on plain uploads.
Concurrent ==
    [slots |-> Slots, users |-> Users, files |-> {ImageFile, VideoFile},
     descriptions |-> {None}, tags |-> {None},
     patches |-> {DescriptionOnly, TagsOnly}, queries |-> {<<"A">>},
     pages |-> {1}, pageSizes |-> {2}, mediaTypes |-> {None},
     errs |-> {"e1"}, strict |-> {FALSE}]

\* One request at a time by one caller, on every input.
Sequential ==
    [slots |-> {"r1"}, users |-> {"u1"}, files |-> Files,
     descriptions |-> UploadDescriptions, tags |-> OptTagsTexts,
     patches |-> UpdateData, queries |-> Queries,
     pages |-> {1}, pageSizes |-> {2}, mediaTypes |-> {None, Some("image")},
     errs |-> ErrTexts, strict |-> BOOLEAN]

Next == NextIn(Concurrent)
NextData == NextIn(Sequential) \/ Tick

Spec == Init /\ [][Next]_vars
SpecData == Init /\ [][NextData]_vars

\* The record and the blob a plain upload of file by owner leaves behind.
uploaded_record(i, owner, file, at) ==
    artifact_record([Idle EXCEPT !.caller = owner, !.file = file,
                                 !.kind = validate_file_type(file),
                                 !.key = blob_key(owner, i, file.filename),
                                 !.url = blob_url(blob_key(owner, i, file.filename))],
                    i, at)

\* The instant of the i-th upload: the first two fall in different instants.
uploaded_at(i) == IF i - 1 < MaxClock THEN i - 1 ELSE MaxClock

\* A repository after n uploads by either owner, listed with no write going on.
InitPages ==
    \E n \in 0..MaxRecords :
      \E owner \in [1..n -> Users], file \in [1..n -> {ImageFile, VideoFile}] :
        /\ db = {uploaded_record(i, owner[i], file[i], uploaded_at(i)) : i \in 1..n}
        /\ blobs = {blob_key(owner[i], i, file[i].filename) : i \in 1..n}
        /\ nextId = n + 1
        /\ nextNonce = n + 1
        /\ nUploads = n
        /\ now = IF n = 0 THEN 0 ELSE uploaded_at(n)
        /\ slots = [s \in Slots |-> Idle]
        /\ last = NoResp
        /\ notified = 0

NextPages ==
    \E u \in Users, p \in Pages, ps \in PageSizes, mt \in MediaTypes :
       GetMediaList(u, p, ps, mt, TRUE, TRUE, FALSE)

SpecPages == InitPages /\ [][NextPages]_vars


\* ------------------------------------------------------------ claims
Exists(d, media_id) == \E r \in d : r.id = media_id
Record(d, media_id) == CHOOSE r \in d : r.id = media_id
ByIdOps == {"get", "update", "delete"}

\* Slot s takes a step of the request it is serving.
Acts(s) == slots[s].pc # "idle" /\ slots'[s] # slots[s]

\* The step begins a request: it answers at once, or a free slot takes it.
Answers == slots' = slots /\ last' # NoResp
Begins == Answers \/ \E s \in Slots : slots[s].pc = "idle" /\ slots'[s].pc # "idle"

\* The step begins the request of user_id on the record media_id.
BeginsById(user_id, media_id) ==
    \/ /\ Answers
       /\ last'.op \in ByIdOps
       /\ last'.caller = user_id
       /\ last'.id = media_id
    \/ \E s \in Slots :
          /\ slots[s].pc = "idle"
          /\ slots'[s].pc # "idle"
          /\ slots'[s].op \in ByIdOps
          /\ slots'[s].caller = user_id
          /\ slots'[s].id = media_id

\* C1: a get, update or delete of an existing record by a caller who is not
\* its owner is answered 403 (unless the lookup itself raised: 500).
C1_NonOwnerForbidden ==
    [][\A u \in Users, i \in Ids :
         (/\ BeginsById(u, i)
          /\ Exists(db, i)
          /\ Record(db, i).userId # u
          /\ last'.status # 500)
         => (Answers /\ last'.status = 403)]_vars

\* C2: a get, update or delete of an id that has no record is answered 404
\* at the lookup (500 when the lookup itself raised), deletes no blob and
\* writes no metadata.
C2_MissingIsNotFound ==
    [][\A u \in Users, i \in Ids :
         (BeginsById(u, i) /\ ~Exists(db, i))
         => (/\ Answers
             /\ last'.status \in {404, 500}
             /\ db' = db
             /\ blobs' = blobs)]_vars

\* A delete of a record that was created and deleted before is answered 404.
C2_Witness ==
    /\ last.op = "delete"
    /\ last.status = 404
    /\ last.id < nextId
    /\ ~Exists(db, last.id)

\* C3: every record a response carries is the caller's own, and a step
\* changes or removes a record, or removes a blob, only on behalf of an
\* update or delete by its owner.
C3_OwnerIsolation ==
    [][/\ \A k \in 1..Len(last'.items) : last'.items[k].userId = last'.caller
       /\ \A r \in db \ db' :
            \E s \in Slots : /\ Acts(s)
                             /\ slots[s].op \in {"update", "delete"}
                             /\ slots[s].caller = r.userId
                             /\ slots[s].id = r.id
       /\ \A key \in blobs \ blobs' :
            \E s \in Slots : /\ Acts(s)
                             /\ slots[s].op = "delete"
                             /\ slots[s].caller = Head(key)]_vars

\* The other caller lists and searches while a record exists, and gets nothing.
C3_Witness ==
    /\ last.op \in {"list", "search"}
    /\ last.status = 200
    /\ last.items = <<>>
    /\ \E r \in db : r.userId # last.caller


\* C4: a thumbnail that is not derived or not stored never fails the upload:
\* the request goes on without a thumbnail and, when the repository takes
\* the record, is answered 201 with thumbnailUrl absent.
C4_ThumbnailFaultTolerated ==
    [][\A s \in Slots :
         /\ (slots[s].pc = "thumb" /\ Acts(s) /\ blobs' = blobs)
            => (/\ last' = NoResp
                /\ slots'[s].pc = "create"
                /\ slots'[s].thumb = None)
         /\ (/\ slots[s].pc = "create"
             /\ slots[s].kind = "image"
             /\ slots[s].thumb = None
             /\ Acts(s)
             /\ last'.status # 500)
            => (/\ last'.status = 201
                /\ Exists(db', last'.id)
                /\ Record(db', last'.id).thumbnailUrl = None
                /\ last'.items = <<MediaResponse(Record(db', last'.id))>>)]_vars

\* An image upload answered 201 whose record has no thumbnail.
C4_Witness ==
    /\ last.op = "upload"
    /\ last.status = 201
    /\ Exists(db, last.id)
    /\ Record(db, last.id).mediaType = "image"
    /\ Record(db, last.id).thumbnailUrl = None

\* A record that was created and is gone.
Deleted(media_id) == media_id < nextId /\ ~Exists(db, media_id)

\* C5: when a delete is answered 204 the record is gone, a record that is
\* gone stays gone, and a get of it by any caller is answered 404.
C5_DeleteThenGet ==
    /\ [](last.op = "delete" /\ last.status = 204 => Deleted(last.id))
    /\ [][\A i \in Ids : Deleted(i) => Deleted(i)']_vars
    /\ [](\A i \in Ids, u \in Users, nOk \in BOOLEAN, st \in BOOLEAN :
            Deleted(i) => get_media_response(db, u, i, nOk, TRUE, st).status = 404)

\* A delete is answered 204 while a second delete of the same record, which
\* passed its checks before, is about to find nothing in the repository.
C5_Witness ==
    /\ last.op = "delete"
    /\ last.status = 204
    /\ \E s \in Slots : /\ slots[s].op = "delete"
                        /\ slots[s].id = last.id
                        /\ slots[s].pc = "record"

\* C6: an update that is persisted stores, for description and for tags, the
\* value of the patch when the patch has one, an empty one included, and
\* leaves the stored value as it was when the patch has none.
C6_PatchAppliesPresentFields ==
    [][\A s \in Slots :
         (/\ slots[s].pc = "persist"
          /\ Acts(s)
          /\ (last'.status = 200 \/ db' # db))
         => LET before == Record(db, slots[s].id)
                after == Record(db', slots[s].id)
                patch == slots[s].patch
            IN  /\ Exists(db, slots[s].id)
                /\ Exists(db', slots[s].id)
                /\ after.description = IF IsSome(patch.description)
                                       THEN patch.description
                                       ELSE before.description
                /\ after.tags = IF IsSome(patch.tags) THEN patch.tags
                                ELSE before.tags]_vars

\* An update that gave only an empty description: the tags of the upload stay.
C6_Witness ==
    /\ last.op = "update"
    /\ last.status = 200
    /\ Record(db, last.id).description = Some(<<>>)
    /\ Record(db, last.id).tags = Some(<<Str(<<"t0">>)>>)

\* C7: tags that are no sequence of strings are answered 400, and no upload
\* in progress and no record carries them.
C7_InvalidTagsRejected ==
    /\ (last.op = "upload" /\ last.status # 201 /\ last.status # 400)
       => last.detail # <<"Failed to upload media: ", "Tags must be an array">>
    /\ \A s \in Slots : tags_are_strings(slots[s].tags)
    /\ \A r \in db : tags_are_strings(r.tags)

\* C8: the step that deletes the primary blob never answers the request:
\* whatever the binary store does, the delete goes on to the repository.
C8_BlobDeleteBestEffort ==
    [][\A s \in Slots :
         (slots[s].pc = "blob" /\ Acts(s))
         => (last' = NoResp /\ slots'[s].pc \in {"thumb_delete", "record"})]_vars

\* C9: the key delete derives for the thumbnail of a record is the key its
\* thumbnail was stored under.
C9_ThumbnailKeyMatches ==
    \A r \in db :
        IsSome(r.thumbnailUrl) => blob_url(thumb_blob_name(r)) = Val(r.thumbnailUrl)

\* What a request answers and becomes does not depend on the notification.
NotifyIrrelevant(sc) ==
    /\ \A u \in sc.users, f \in sc.files, d \in sc.descriptions, t \in sc.tags :
         upload_begin(u, f, d, t, TRUE) = upload_begin(u, f, d, t, FALSE)
    /\ \A u \in sc.users, i \in Ids, ok \in BOOLEAN, st \in sc.strict :
         get_media_response(db, u, i, TRUE, ok, st)
           = get_media_response(db, u, i, FALSE, ok, st)
    /\ \A u \in sc.users, p \in sc.pages, ps \in sc.pageSizes,
          mt \in sc.mediaTypes, ok \in BOOLEAN, st \in sc.strict :
         get_media_list_response(db, u, p, ps, mt, TRUE, ok, st)
           = get_media_list_response(db, u, p, ps, mt, FALSE, ok, st)
    /\ \A u \in sc.users, q \in sc.queries, p \in sc.pages, ps \in sc.pageSizes,
          ok \in BOOLEAN, st \in sc.strict :
         search_media_response(db, u, q, p, ps, TRUE, ok, st)
           = search_media_response(db, u, q, p, ps, FALSE, ok, st)
    /\ \A u \in sc.users, i \in Ids, ud \in sc.patches, ok \in BOOLEAN :
         update_begin(db, u, i, ud, TRUE, ok) = update_begin(db, u, i, ud, FALSE, ok)
    /\ \A u \in sc.users, i \in Ids, ok \in BOOLEAN :
         delete_begin(db, u, i, TRUE, ok) = delete_begin(db, u, i, FALSE, ok)

C11_PrimaryStoreFailureFatal ==
    [][\A s \in Slots :
         /\ (slots[s].pc = "store" /\ Acts(s) /\ blobs' = blobs)
            => (/\ last'.op = "upload"
                /\ last'.status = 500
                /\ slots'[s] = Idle
                /\ db' = db)
         /\ (slots[s].op = "upload" /\ Acts(s))
            => \A r \in db' \ db :
                  /\ slots[s].pc = "create"
                  /\ r.fileName = slots[s].key
                  /\ r.fileName \in blobs]_vars

\* An upload is answered 500 by the binary store: nothing is stored or recorded.
C11_Witness ==
    /\ last.op = "upload"
    /\ last.status = 500
    /\ last.detail = <<"Failed to upload media: ", "e1">>
    /\ blobs = {}
    /\ db = {}
    /\ nUploads = 1

\* C12: a 500 answer carries no text of the exception the backend raised, so
\* two runs that differ in that text alone are answered alike.
C12_BackendErrorGeneric ==
    last.status = 500 => \A e \in ErrTexts : ~contains(last.detail, <<e>>)

Min(a, b) == IF a < b THEN a ELSE b
Max(a, b) == IF a > b THEN a ELSE b

\* The caller's records of the kind asked for.
Matching(d, user_id, mediaType) ==
    {r \in d : /\ r.userId = user_id
               /\ (IsSome(mediaType) => r.mediaType = Val(mediaType))}

ListPage(d, user_id, page, pageSize, mediaType) ==
    get_media_list_response(d, user_id, page, pageSize, mediaType, TRUE, TRUE, FALSE)

\* C13: with N records of the caller matching the filter, page p of size s
\* holds min(s, max(0, N - (p-1)*s)) records, all the caller's and of the kind
\* asked for, with total = N and page and pageSize echoed; no record is twice
\* on a page, the pages 1..ceil(N/s) are pairwise disjoint and together they
\* hold every matching record.
C13_Pagination ==
    \A u \in Users, mt \in MediaTypes, ps \in PageSizes :
      LET all == Matching(db, u, mt)
          N == Cardinality(all)
          full == 1..((N + ps - 1) \div ps)
          ids(p) == LET r == ListPage(db, u, p, ps, mt)
                    IN  {r.items[k].id : k \in 1..Len(r.items)}
      IN  /\ \A p \in Pages :
                LET r == ListPage(db, u, p, ps, mt) IN
                  /\ r.status = 200
                  /\ Len(r.items) = Min(ps, Max(0, N - (p - 1) * ps))
                  /\ r.total = N
                  /\ r.page = p
                  /\ r.pageSize = ps
                  /\ \A k \in 1..Len(r.items) :
                        \E m \in all : r.items[k] = MediaResponse(m)
                  /\ Cardinality({r.items[k].id : k \in 1..Len(r.items)})
                       = Len(r.items)
          /\ \A p \in full, q \in full : p < q => ids(p) \cap ids(q) = {}
          /\ UNION {ids(p) : p \in full} = {m.id : m \in all}

\* The last page of three records listed two at a time holds one record.
C13_Witness ==
    /\ last.op = "list"
    /\ last.status = 200
    /\ last.page = 2
    /\ last.pageSize = 2
    /\ last.total = 3
    /\ Len(last.items) = 1
    /\ Cardinality(db) = 3

\* C14: the record of a successful upload has updatedAt = uploadedAt; every
\* successful update leaves updatedAt strictly greater than it was; so
\* updatedAt >= uploadedAt for every record, and uploadedAt never changes.
C14_Timestamps ==
    /\ [](last.op = "upload" /\ last.status = 201
            => last.items[1].updatedAt = last.items[1].uploadedAt)
    /\ [][\A s \in Slots :
            (slots[s].pc = "persist" /\ Acts(s) /\ last'.status = 200)
            => Record(db', slots[s].id).updatedAt > Record(db, slots[s].id).updatedAt]_vars
    /\ [](\A r \in db : r.updatedAt >= r.uploadedAt)
    /\ [][\A r \in db, q \in db' : q.id = r.id => q.uploadedAt = r.uploadedAt]_vars

\* C15: every record with a thumbnailUrl is an image; an upload gets its
\* thumbnail URL only at the thumbnail step of an image, from the blob that
\* step stored; and the thumbnailUrl of a record never changes.
C15_ThumbnailOnlyOnImages ==
    /\ [](\A r \in db : IsSome(r.thumbnailUrl) => r.mediaType = "image")
    /\ [][\A s \in Slots :
            (IsSome(slots'[s].thumb) /\ slots'[s].thumb # slots[s].thumb)
            => (/\ slots[s].pc = "thumb"
                /\ slots[s].kind = "image"
                /\ \E key \in blobs' \ blobs :
                      slots'[s].thumb = Some(blob_url(key)))]_vars
    /\ [][\A r \in db, q \in db' :
            q.id = r.id => q.thumbnailUrl = r.thumbnailUrl]_vars

\* The record of an image has a thumbnail and has been updated since.
C15_Witness ==
    /\ last.op = "update"
    /\ last.status = 200
    /\ \E r \in db : /\ r.id = last.id
                     /\ IsSome(r.thumbnailUrl)
                     /\ IsSome(r.description)

\* The fields of a record that are fixed when it is created.
Immutable ==
    {"id", "userId", "fileName", "originalFileName", "mediaType", "fileSize",
     "mimeType", "blobUrl", "thumbnailUrl"}

\* C16: a step leaves the fixed fields of every record that stays as they
\* were, and changes a record only as the persist step of an update of that
\* record; the changeset of an update has the keys description, tags and
\* updatedAt and no other.
C16_Immutability ==
    /\ [][\A r \in db, q \in db' :
            q.id = r.id
            => /\ \A f \in Immutable : q[f] = r[f]
               /\ q # r => \E s \in Slots : /\ Acts(s)
                                            /\ slots[s].op = "update"
                                            /\ slots[s].pc = "persist"
                                            /\ slots[s].id = r.id]_vars
    /\ [](\A s \in Slots :
            slots[s].pc = "persist"
            => DOMAIN changeset(slots[s].patch, now)
                 = {"description", "tags", "updatedAt"})

\* The second caller's record after an update of its tags.
C16_Witness ==
    /\ last.op = "update"
    /\ last.status = 200
    /\ \E r \in db : /\ r.id = last.id
                     /\ r.userId = "u2"
                     /\ r.tags = Some(<<Str(<<"t1">>)>>)
                     /\ r.mediaType = "video"

\* C17: of the updates in progress, each giving the description or the tags
\* alone, the one that persists while its record exists succeeds unless the
\* repository call itself fails; it is answered with the record as it then
\* stands, carrying the field it gave; and no step takes back a description
\* or tags that a record already carries.
C17_ConcurrentUpdatesMerge ==
    /\ [][\A s \in Slots :
            (slots[s].pc = "persist" /\ Acts(s) /\ Exists(db, slots[s].id))
            => /\ last'.status \in {200, 500}
               /\ last'.status = 200
                  => LET after == Record(db', slots[s].id)
                         patch == slots[s].patch
                     IN  /\ IsSome(patch.description)
                            => after.description = patch.description
                         /\ IsSome(patch.tags) => after.tags = patch.tags
                         /\ last'.items = <<MediaResponse(after)>>]_vars
    /\ [][\A r \in db, q \in db' :
            q.id = r.id
            => /\ IsSome(r.description) => q.description = r.description
               /\ IsSome(r.tags) => q.tags = r.tags]_vars

\* The update of the tags has just succeeded on a record that carries the
\* new description, while a second update of the description, begun before,
\* is still to persist.
C17_Witness ==
    /\ last.op = "update"
    /\ last.status = 200
    /\ last.items[1].tags = Some(<<Str(<<"t1">>)>>)
    /\ last.items[1].description = Some(<<"d1">>)
    /\ \E s \in Slots : /\ slots[s].pc = "persist"
                        /\ slots[s].id = last.id
                        /\ slots[s].caller = last.caller
                        /\ slots[s].patch = DescriptionOnly

\* The validator rejects the file: its type, or its size.
Rejected(file) ==
    validate_file_type(file) = "HTTPException" \/ ~validate_file_size(file)

\* The steps of an upload, each with the steps that can follow it.
UploadOrder ==
    { <<"store", "thumb">>, <<"store", "create">>, <<"store", "idle">>,
      <<"thumb", "create">>, <<"create", "idle">> }

\* C18: an upload of a file the validator rejects is answered 400 at once
\* and goes no further; an upload that is answered as it begins stores and
\* records nothing; an upload in progress has passed validation and goes
\* from the primary store to the thumbnail (images only) to the repository,
\* storing blobs and creating its record at those steps only.
C18_UploadFailsFast ==
    /\ [](\A u \in Users, f \in Files, d \in UploadDescriptions, t \in OptTagsTexts :
            Rejected(f)
            => /\ upload_begin(u, f, d, t, TRUE).reply.status = 400
               /\ upload_begin(u, f, d, t, TRUE).slot = Idle)
    /\ [](\A s \in Slots : slots[s].op = "upload" => ~Rejected(slots[s].file))
    /\ [][(Answers /\ last'.op = "upload")
            => (db' = db /\ blobs' = blobs /\ nextNonce' = nextNonce)]_vars
    /\ [][\A s \in Slots :
            /\ (slots[s].pc = "idle" /\ slots'[s].op = "upload")
               => slots'[s].pc = "store"
            /\ (slots[s].op = "upload" /\ Acts(s))
               => /\ <<slots[s].pc, slots'[s].pc>> \in UploadOrder
                  /\ blobs' # blobs => slots[s].pc \in {"store", "thumb"}
                  /\ db' # db => slots[s].pc = "create"]_vars

\* A file over the size ceiling is answered 400: nothing is stored or recorded
\* and no upload is in progress.
C18_Witness ==
    /\ last.op = "upload"
    /\ last.status = 400
    /\ last.detail = <<"File too large">>
    /\ db = {}
    /\ blobs = {}
    /\ \A s \in Slots : slots[s] = Idle

\* C19: an update that passed its checks and finds its record deleted when
\* it persists is answered 404 whenever the repository itself answers (500
\* only when the call fails), and its step leaves the repository as it is:
\* the record is not created again.
C19_UpdateAfterDelete ==
    /\ [](\A s \in Slots :
            (slots[s].pc = "persist" /\ ~Exists(db, slots[s].id))
            => ENABLED (UpdatePersist(s, TRUE, FALSE) /\ last'.status = 404))
    /\ [][\A s \in Slots :
            (slots[s].pc = "persist" /\ Acts(s) /\ ~Exists(db, slots[s].id))
            => (/\ last'.status \in {404, 500}
                /\ db' = db
                /\ Deleted(slots[s].id)')]_vars

\* The update lost the race: its record was there at its checks and is gone.
C19_Witness ==
    /\ last.op = "update"
    /\ last.status = 404
    /\ last.detail # check_detail("update", 404)
    /\ Deleted(last.id)

\* The primary blob of record r is stored, or a delete of r that has removed
\* it is on its way to removing r.
Covered(b, sl, r) ==
    \/ r.fileName \in b
    \/ \E s \in Slots : /\ sl[s].op = "delete"
                        /\ sl[s].id = r.id
                        /\ sl[s].caller = r.userId
                        /\ sl[s].pc \in {"thumb_delete", "record"}

\* No request is in progress.
Quiescent == \A s \in Slots : slots[s].pc = "idle"

\* C20: a step that is not a delete ending in failure keeps every record
\* covered: a record is created with its primary blob stored, and that blob
\* is removed only by a delete of the record, which goes on to remove the
\* record.  So with no failed delete before it, a state in which no request
\* is in progress has the primary blob of every record.
C20_RecordBlobConsistency ==
    /\ [][((\A r \in db : Covered(blobs, slots, r))
            /\ ~(last'.op = "delete" /\ last'.status = 500))
           => (\A r \in db' : Covered(blobs', slots', r))]_vars
    /\ []((Quiescent /\ \A r \in db : Covered(blobs, slots, r))
            => \A r \in db : r.fileName \in blobs)
    /\ [][\A r \in db :
            (r.fileName \in blobs /\ r.fileName \notin blobs')
            => \E s \in Slots : /\ Acts(s)
                                /\ slots[s].op = "delete"
                                /\ slots[s].pc = "blob"
                                /\ slots[s].id = r.id]_vars
    /\ [][\A r \in db' : ~Exists(db, r.id) => r.fileName \in blobs']_vars

\* A delete has been answered 204 with no request left in progress: the
\* record is gone and so is its primary blob.
C20_Witness ==
    /\ Quiescent
    /\ last.op = "delete"
    /\ last.status = 204
    /\ Deleted(last.id)
    /\ db = {}
    /\ \A key \in blobs : key[5] = "thumb_"

====
